---- MODULE Spec2Model ----
(***************************************************************************)
(* State-machine model of par_app.py: the PAR display's configuration      *)
(* globals, the SimConnect data source and the main poll/render loop.      *)
(*                                                                         *)
(* Number representation.  Python floats are modelled by integers in fixed *)
(* units: latitude/longitude in 1e-4 degree, lengths in centimetres,       *)
(* cos/sin in 1/1000, time in clock ticks of 1/TicksPerSec second.  The    *)
(* quotient along_m / 1852.0 is kept exact as a fraction [n, d].           *)
(* Optional values (Python None) are sequences of length 0 or 1.           *)
(***************************************************************************)
EXTENDS Integers, Sequences, FiniteSets, TLC

\* ------------------------------------------------------------------------
\* Optional values: None, or Some(v)
\* ------------------------------------------------------------------------
None == <<>>

Some(v) == <<v>>

Val(o) == o[1]

\* Python truthiness of an optional callsign (a sequence of characters) and of
\* an optional dictionary key (a string): None and "" are falsy.
Truthy(o) == o # None /\ Val(o) # <<>>

TruthyKey(o) == o # None /\ Val(o) # ""

\* ------------------------------------------------------------------------
\* JSON values of a runway entry: a number, or a value float() rejects
\* ------------------------------------------------------------------------
\* (float(x) gives the number of Num(n) and raises on NotANumber)
Num(n) == <<n>>

NotANumber == <<>>

IsNum(x) == x # NotANumber

NumVal(x) == x[1]

\* The order in which _apply_runway assigns the six globals.
FieldOrder == <<"lat", "lon", "elev_ft", "heading_deg", "glideslope_deg", "max_range_nm">>

Fields == {FieldOrder[i] : i \in 1..Len(FieldOrder)}

\* Module-level defaults of the runway frame (lat/lon in 1e-4 degree).
DefaultFrame ==
  [lat |-> 490128, lon |-> 25500, elev_ft |-> 400,
   heading_deg |-> 160, glideslope_deg |-> 3, max_range_nm |-> 10]

\* active.get(f, <current global>): the entry's value, else the current one.
GetOr(active, f, cur) == IF f \in DOMAIN active THEN active[f] ELSE Num(cur)

\* Index of the first field whose float() raises, 0 when none does.
RECURSIVE FirstBad(_, _)
FirstBad(active, i) ==
  IF i > Len(FieldOrder) THEN 0
  ELSE IF ~IsNum(GetOr(active, FieldOrder[i], 0)) THEN i
  ELSE FirstBad(active, i + 1)

ApplyAborts(active) == FirstBad(active, 1) # 0

FieldIndex(f) == CHOOSE i \in 1..Len(FieldOrder) : FieldOrder[i] = f

\* _apply_runway: the six globals are assigned one after the other, each from
\* float(active.get(field, <current value>)).  A float() that raises leaves
\* the assignments before it done and the rest undone.
_apply_runway(active, cur) ==
  LET b == FirstBad(active, 1)
  IN [f \in Fields |->
        IF b = 0 \/ FieldIndex(f) < b THEN NumVal(GetOr(active, f, cur[f])) ELSE cur[f]]

\* ------------------------------------------------------------------------
\* Configuration files (par_config.json) the program may find on disk
\* ------------------------------------------------------------------------
RwyEast ==
  [lat |-> Num(490000), lon |-> Num(25000), elev_ft |-> Num(100),
   heading_deg |-> Num(90), glideslope_deg |-> Num(3), max_range_nm |-> Num(10)]

RwyWest ==
  [lat |-> Num(490000), lon |-> Num(25000), elev_ft |-> Num(100),
   heading_deg |-> Num(270), glideslope_deg |-> Num(4), max_range_nm |-> Num(8)]

\* lacks lon, elev_ft, glideslope_deg and max_range_nm
RwyPartial == [lat |-> Num(491000), heading_deg |-> Num(90)]

\* elev_ft is a string float() cannot convert
RwyNonNumeric ==
  [lat |-> Num(491000), lon |-> Num(26000), elev_ft |-> NotANumber,
   heading_deg |-> Num(270), glideslope_deg |-> Num(4), max_range_nm |-> Num(8)]

\* complete and numeric, but outside the frame's documented ranges
RwyOutOfRange ==
  [lat |-> Num(490000), lon |-> Num(25000), elev_ft |-> Num(100),
   heading_deg |-> Num(400), glideslope_deg |-> Num(0), max_range_nm |-> Num(0)]

Airports ==
  [ESSA |-> [runways |-> Some([r09 |-> RwyEast, r27 |-> RwyWest])],
   ENGM |-> [runways |-> Some([r01 |-> RwyPartial, r19 |-> RwyNonNumeric,
                               r36 |-> RwyOutOfRange])],
   ESNU |-> [runways |-> None]]

\* The order sorted() gives the keys.
KeyOrder == <<"ENGM", "ESNU", "ESSA", "r01", "r09", "r19", "r27", "r36">>

KeyRank(k) == CHOOSE i \in 1..Len(KeyOrder) : KeyOrder[i] = k

\* next(iter(sorted(keys)), None)
FirstSorted(keys) ==
  IF keys = {} THEN None
  ELSE Some(CHOOSE k \in keys : \A j \in keys : KeyRank(k) <= KeyRank(j))

\* Callsigns are strings: sequences of characters.
BaseConfig ==
  [target_callsign |-> None, poll_hz |-> None, airports |-> Airports,
   active_airport |-> Some("ESSA"), active_runway |-> Some("r09")]

\* The files, by name; "missing" is the absent file.
ConfigFiles ==
  [missing |-> None,
   base |-> Some(BaseConfig),
   hz0 |-> Some([BaseConfig EXCEPT !.poll_hz = Some(0)]),
   hzneg |-> Some([BaseConfig EXCEPT !.poll_hz = Some(-1)]),
   hz1lock |-> Some([BaseConfig EXCEPT !.poll_hz = Some(1),
                                       !.target_callsign = Some(<<"a", "1">>)]),
   r18 |-> Some([BaseConfig EXCEPT !.active_runway = Some("r18")]),
   r36 |-> Some([BaseConfig EXCEPT !.active_airport = Some("ENGM"),
                                   !.active_runway = Some("r36")])]

EmptyDict == <<>>

\* dict.get(k): Some(value) or None
DictGet(d, k) == IF k \in DOMAIN d THEN Some(d[k]) ELSE None

\* airport.get("runways", {})
RunwaysOf(airport) == IF airport.runways = None THEN EmptyDict ELSE Val(airport.runways)

\* ------------------------------------------------------------------------
\* Strings (callsigns): sequences of characters
\* ------------------------------------------------------------------------
Chars == {"a", "b", "A", "B", "1", "9", " "}

\* str.upper(), character by character
UpperChar(c) == CASE c = "a" -> "A" [] c = "b" -> "B" [] OTHER -> c

Upper(str) == [i \in 1..Len(str) |-> UpperChar(str[i])]

\* str.strip(): leading and trailing blanks removed
RECURSIVE LStrip(_)
LStrip(str) == IF str # <<>> /\ Head(str) = " " THEN LStrip(Tail(str)) ELSE str

RECURSIVE RStrip(_)
RStrip(str) ==
  IF str # <<>> /\ str[Len(str)] = " " THEN RStrip(SubSeq(str, 1, Len(str) - 1)) ELSE str

Strip(str) == RStrip(LStrip(str))

\* x or "": None and "" give ""
OrEmpty(o) == IF Truthy(o) THEN Val(o) ELSE <<>>

\* ------------------------------------------------------------------------
\* Target selection
\* ------------------------------------------------------------------------
\* Mutant of CallsignMatches: the comparison minds the case.
CallsignMatchesExactCase(t, locked) == Strip(OrEmpty(t.callsign)) = locked

\* str(t.get("callsign") or "").strip().upper() == TARGET_CALLSIGN.upper()
CallsignMatches(t, locked) == Upper(Strip(OrEmpty(t.callsign))) = Upper(locked)

\* _pick_target: None for an empty list; the first target matching the locked
\* callsign when one is configured; else the first target.
_pick_target(tgts, locked) ==
  IF tgts = <<>> THEN None
  ELSE IF Truthy(locked) /\ \E i \in 1..Len(tgts) : CallsignMatches(tgts[i], Val(locked))
  THEN LET i == CHOOSE j \in 1..Len(tgts) :
                  /\ CallsignMatches(tgts[j], Val(locked))
                  /\ \A k \in 1..(j - 1) : ~CallsignMatches(tgts[k], Val(locked))
       IN Some(tgts[i])
  ELSE Some(tgts[1])

\* ------------------------------------------------------------------------
\* Geometry, in fixed point
\* ------------------------------------------------------------------------
\* 6371000.0 * radians(1e-4 degree), in millimetres: 11.119 m
EarthMmPerUnit == 11119

\* metres per nautical mile, the divisor of range_nm
MetresPerNm == 1852

\* cos and sin are carried in 1/1000
TrigScale == 1000

\* cos(radians(ref_lat)) * 1000 for the reference latitudes of the model
\* (48.95 to 49.15 degrees)
CosLatMilli(lat) ==
  CASE lat \in 489500..490499 -> 656
    [] lat \in 490500..491499 -> 655

\* cos and sin of the runway headings of the model, * 1000
CosMilli(h) == CASE h = 90 -> 0 [] h = 160 -> -940 [] h = 270 -> 0 [] h = 400 -> 766

SinMilli(h) == CASE h = 90 -> 1000 [] h = 160 -> 342 [] h = 270 -> -1000 [] h = 400 -> 643

\* _geodetic_to_local_m: equirectangular offsets <<x, y>> in metres
_geodetic_to_local_m(lat, lon, ref_lat, ref_lon) ==
  LET dlat == lat - ref_lat
      dlon == lon - ref_lon
  IN << (((dlon * EarthMmPerUnit) \div 1000) * CosLatMilli(ref_lat)) \div TrigScale,
        (dlat * EarthMmPerUnit) \div 1000 >>

\* _rotate: <<x cos + y sin, -x sin + y cos>>, in millimetres
_rotate(x, y, heading_deg) ==
  << x * CosMilli(heading_deg) + y * SinMilli(heading_deg),
     (0 - x) * SinMilli(heading_deg) + y * CosMilli(heading_deg) >>

\* along_m / 1852.0 as an exact fraction (along is in millimetres)
Quot(along_mm) == [n |-> along_mm, d |-> MetresPerNm * TrigScale]

Zero == [n |-> 0, d |-> 1]

RatLess(a, b) == a.n * b.d < b.n * a.d

\* Mutant of Max0: the quotient is not clamped.
Max0Unclamped(q) == q

\* max(0.0, q): the first argument unless the second is greater
Max0(q) == IF RatLess(Zero, q) THEN q ELSE Zero

\* The track of a target that has lat, lon and alt.
TrackOf(tg, fr) ==
  LET xy == _geodetic_to_local_m(Val(tg.lat), Val(tg.lon), fr.lat, fr.lon)
      ac == _rotate(xy[1], xy[2], fr.heading_deg)
  IN [callsign |-> Strip(OrEmpty(tg.callsign)),
      range_nm |-> Max0(Quot(ac[1])),
      cross_m |-> ac[2],
      height_ft |-> Val(tg.alt) - fr.elev_ft,
      gs |-> tg.gs,
      vs |-> tg.vs]

\* Mutant of _compute_track: a missing lon is replaced by the runway's.
ComputeTrackDefaultLon(t, fr) ==
  IF t = None THEN None
  ELSE LET tg == Val(t)
       IN IF tg.lat = None \/ tg.alt = None THEN None
          ELSE Some(TrackOf([tg EXCEPT !.lon = IF tg.lon = None THEN Some(fr.lon) ELSE tg.lon],
                            fr))

\* _compute_track: None without a target or without lat, lon or alt;
\* else the runway-relative track.
_compute_track(t, fr) ==
  IF t = None THEN None
  ELSE LET tg == Val(t)
       IN IF tg.lat = None \/ tg.lon = None \/ tg.alt = None THEN None
          ELSE Some(TrackOf(tg, fr))

\* ------------------------------------------------------------------------
\* Rendering: what the two scopes draw
\* ------------------------------------------------------------------------
\* tan(radians(GLIDESLOPE_DEG)) * 1000 for the glideslopes of the model
GlideTanMilli(g) == CASE g = 0 -> 0 [] g = 3 -> 52 [] g = 4 -> 70

\* _glidepath_height_ft(MAX_RANGE_NM) * 1.2 is 0.0: the divisor of y_from_alt
MaxAltIsZero(fr) == GlideTanMilli(fr.glideslope_deg) * fr.max_range_nm = 0

\* range_nm > MAX_RANGE_NM
BeyondRange(track, fr) == RatLess([n |-> fr.max_range_nm, d |-> 1], track.range_nm)

\* _draw_elevation: the reference lines and the ten range ticks, then the
\* target marker unless there is no track or it lies beyond MAX_RANGE_NM.
\* range_nm / MAX_RANGE_NM and a_ft / max_alt_ft raise ZeroDivisionError on a
\* zero divisor, before the first circle is drawn.
_draw_elevation(track, fr) ==
  IF track = None \/ BeyondRange(Val(track), fr)
  THEN [furniture |-> TRUE, marker |-> FALSE, raises |-> FALSE]
  ELSE IF fr.max_range_nm = 0 \/ MaxAltIsZero(fr)
  THEN [furniture |-> TRUE, marker |-> FALSE, raises |-> TRUE]
  ELSE [furniture |-> TRUE, marker |-> TRUE, raises |-> FALSE]

\* _draw_azimuth: the same, with range_nm / MAX_RANGE_NM the one division
\* by a global (cross_m is divided by the constant 600.0).
_draw_azimuth(track, fr) ==
  IF track = None \/ BeyondRange(Val(track), fr)
  THEN [furniture |-> TRUE, marker |-> FALSE, raises |-> FALSE]
  ELSE IF fr.max_range_nm = 0
  THEN [furniture |-> TRUE, marker |-> FALSE, raises |-> TRUE]
  ELSE [furniture |-> TRUE, marker |-> TRUE, raises |-> FALSE]

\* The screen before a scope is drawn.
Blank == [furniture |-> FALSE, marker |-> FALSE, raises |-> FALSE]

\* render: the elevation scope, then the azimuth scope; an exception in the
\* first leaves the second undrawn.
render(track, fr) ==
  LET e == _draw_elevation(track, fr)
      a == IF e.raises THEN Blank ELSE _draw_azimuth(track, fr)
  IN [elev_furniture |-> e.furniture, elev_marker |-> e.marker,
      azim_furniture |-> a.furniture, azim_marker |-> a.marker,
      raises |-> e.raises \/ a.raises]

\* Nothing of the current frame is on the screen yet.
NotRendered ==
  [elev_furniture |-> FALSE, elev_marker |-> FALSE,
   azim_furniture |-> FALSE, azim_marker |-> FALSE, raises |-> FALSE]

\* ------------------------------------------------------------------------
\* Bounds of the model
\* ------------------------------------------------------------------------
\* Clock ticks per second, and the clock reading when main() starts.
TicksPerSec == 2

StartNow == 10

\* The clock stops advancing MaxElapsed ticks after the start.
MaxElapsed == 2

\* Largest number of aircraft the simulator lists in one poll.
MaxAircraft == 2

\* ------------------------------------------------------------------------
\* State
\* ------------------------------------------------------------------------
\* Left out: SimConnectSource.last_attempt (written by connect(), never read),
\* the log lines, WINDOW_SIZE and ParDisplay.dropdown_open (a selection click
\* stands for opening the dropdown and clicking the item).
VARIABLES
  cfg,                  \* which par_config.json is on disk: a name in ConfigFiles
  TARGET_CALLSIGN, POLL_HZ,
  AIRPORT_CONFIGS, RUNWAY_CONFIGS, ACTIVE_AIRPORT_KEY, ACTIVE_RUNWAY_KEY,
  RUNWAY_LAT, RUNWAY_LON, RUNWAY_ELEV_FT, RUNWAY_HEADING_DEG,
  GLIDESLOPE_DEG, MAX_RANGE_NM,
  sm, aq, connected, last_error, last_poll, cache,   \* SimConnectSource fields
  now,                  \* time.time(), in ticks
  pc,                   \* position of main()
  running, targets, target, last_track,              \* locals of main()
  poll_exit,            \* the return statement the latest poll() left by
  drawn,                \* what render() drew in this iteration
  raised                \* the function whose exception ended main(), or "none"

cfgVars == <<TARGET_CALLSIGN, POLL_HZ, AIRPORT_CONFIGS, RUNWAY_CONFIGS,
             ACTIVE_AIRPORT_KEY, ACTIVE_RUNWAY_KEY>>

frameVars == <<RUNWAY_LAT, RUNWAY_LON, RUNWAY_ELEV_FT, RUNWAY_HEADING_DEG,
               GLIDESLOPE_DEG, MAX_RANGE_NM>>

sourceVars == <<sm, aq, connected, last_error, last_poll, cache>>

loopVars == <<running, targets, target, last_track, poll_exit, drawn>>

vars == <<cfg, cfgVars, frameVars, sourceVars, now, pc, loopVars, raised>>

\* The active runway frame: the six module globals.
Frame ==
  [lat |-> RUNWAY_LAT, lon |-> RUNWAY_LON, elev_ft |-> RUNWAY_ELEV_FT,
   heading_deg |-> RUNWAY_HEADING_DEG, glideslope_deg |-> GLIDESLOPE_DEG,
   max_range_nm |-> MAX_RANGE_NM]

SetFrame(fr) ==
  /\ RUNWAY_LAT' = fr.lat
  /\ RUNWAY_LON' = fr.lon
  /\ RUNWAY_ELEV_FT' = fr.elev_ft
  /\ RUNWAY_HEADING_DEG' = fr.heading_deg
  /\ GLIDESLOPE_DEG' = fr.glideslope_deg
  /\ MAX_RANGE_NM' = fr.max_range_nm

\* Module globals and main()'s locals before main() runs.
Init ==
  /\ cfg \in DOMAIN ConfigFiles
  /\ TARGET_CALLSIGN = None
  /\ POLL_HZ = 2
  /\ AIRPORT_CONFIGS = EmptyDict
  /\ RUNWAY_CONFIGS = EmptyDict
  /\ ACTIVE_AIRPORT_KEY = None
  /\ ACTIVE_RUNWAY_KEY = None
  /\ RUNWAY_LAT = DefaultFrame.lat
  /\ RUNWAY_LON = DefaultFrame.lon
  /\ RUNWAY_ELEV_FT = DefaultFrame.elev_ft
  /\ RUNWAY_HEADING_DEG = DefaultFrame.heading_deg
  /\ GLIDESLOPE_DEG = DefaultFrame.glideslope_deg
  /\ MAX_RANGE_NM = DefaultFrame.max_range_nm
  /\ sm = None
  /\ aq = None
  /\ connected = FALSE
  /\ last_error = None
  /\ last_poll = 0
  /\ cache = <<>>
  /\ now = StartNow
  /\ pc = "load"
  /\ running = TRUE
  /\ targets = <<>>
  /\ target = None
  /\ last_track = None
  /\ poll_exit = "none"
  /\ drawn = NotRendered
  /\ raised = "none"

\* An uncaught exception ends main().
Raise(fn) == pc' = "crashed" /\ raised' = fn

\* _load_config, called first by main().
_load_config ==
  /\ pc = "load"
  /\ UNCHANGED <<cfg, sourceVars, now, loopVars>>
  /\ IF ConfigFiles[cfg] = None
     THEN /\ pc' = "connect"
          /\ UNCHANGED <<cfgVars, frameVars, raised>>
     ELSE LET c == Val(ConfigFiles[cfg])
              airport == IF TruthyKey(c.active_airport)
                         THEN DictGet(c.airports, Val(c.active_airport)) ELSE None
              runways == IF airport # None THEN RunwaysOf(Val(airport)) ELSE EmptyDict
              active == IF TruthyKey(c.active_runway)
                        THEN DictGet(runways, Val(c.active_runway)) ELSE None
          IN /\ TARGET_CALLSIGN' =
                  (IF c.target_callsign = None THEN TARGET_CALLSIGN ELSE c.target_callsign)
             /\ POLL_HZ' = (IF c.poll_hz = None THEN POLL_HZ ELSE Val(c.poll_hz))
             /\ AIRPORT_CONFIGS' = c.airports
             /\ ACTIVE_AIRPORT_KEY' = c.active_airport
             /\ ACTIVE_RUNWAY_KEY' = c.active_runway
             /\ RUNWAY_CONFIGS' = runways
             /\ IF active # None
                THEN /\ SetFrame(_apply_runway(Val(active), Frame))
                     /\ IF ApplyAborts(Val(active))
                        THEN Raise("_apply_runway")
                        ELSE pc' = "connect" /\ UNCHANGED raised
                ELSE /\ pc' = "connect"
                     /\ UNCHANGED <<frameVars, raised>>

\* ------------------------------------------------------------------------
\* The simulator behind SimConnect
\* ------------------------------------------------------------------------
\* Messages of the exceptions the SimConnect calls raise.
Errors == {"pipe closed"}

Aircraft(id, user, lat, lon, alt, cs) ==
  [object_id |-> id, is_user |-> user, lat |-> lat, lon |-> lon, alt |-> alt,
   hdg |-> Some(90), pitch |-> Some(0), bank |-> Some(0),
   gs |-> Some(140), vs |-> None, callsign |-> cs]

\* The aircraft the simulator may list: the user's own and two AI aircraft.
SimAircraft ==
  { Aircraft(1, TRUE, Some(490000), Some(25000), Some(100), Some(<<"A", "1">>)),
    Aircraft(2, FALSE, Some(490300), Some(25000), Some(1500), Some(<<"B", "9">>)),
    Aircraft(3, FALSE, Some(489700), None, Some(900), Some(<<" ", "a", "1">>)) }

RECURSIVE SeqsUpTo(_, _)
SeqsUpTo(S, n) ==
  IF n = 0 THEN {<<>>}
  ELSE LET shorter == SeqsUpTo(S, n - 1)
       IN shorter \cup {Append(q, x) : q \in shorter, x \in S}

\* What get_aircraft_list / RequestDataOnSimObjectType may answer.
SimWorlds == SeqsUpTo(SimAircraft, MaxAircraft)

IsAI(a) == a.is_user = FALSE

\* _get_ai_object_ids: the listed aircraft whose is_user is False, in order
\* (each stands for its object id; the reads below are by that id).
_get_ai_object_ids(world) == SelectSeq(world, IsAI)

\* The nine aq.get reads of one target, in the order poll() makes them.
ReadOrder == <<"lat", "lon", "alt", "hdg", "pitch", "bank", "gs", "vs", "callsign">>

\* The dict poll() builds for one aircraft.
TargetOf(a) ==
  [id |-> a.object_id, lat |-> a.lat, lon |-> a.lon, alt |-> a.alt, hdg |-> a.hdg,
   pitch |-> a.pitch, bank |-> a.bank, gs |-> a.gs, vs |-> a.vs,
   callsign |-> a.callsign]

\* The list `targets` after the first k aircraft were read completely.
Built(ids, k) == [i \in 1..k |-> TargetOf(ids[i])]

\* The source as a record of its fields.
Source ==
  [sm |-> sm, aq |-> aq, connected |-> connected, last_error |-> last_error,
   last_poll |-> last_poll, cache |-> cache]

SetSource(s) ==
  /\ sm' = s.sm
  /\ aq' = s.aq
  /\ connected' = s.connected
  /\ last_error' = s.last_error
  /\ last_poll' = s.last_poll
  /\ cache' = s.cache

\* Mutant of Throttled: the interval is 1 // POLL_HZ, in whole seconds.
ThrottledWholeSeconds(t, last, hz) == t - last < (1 \div hz) * TicksPerSec

\* now - self.last_poll < 1.0 / POLL_HZ, for POLL_HZ # 0, with the times in
\* ticks: multiplied through by POLL_HZ * TicksPerSec (the sense of < turns
\* when POLL_HZ is negative).
Throttled(t, last, hz) ==
  IF hz > 0 THEN (t - last) * hz < TicksPerSec ELSE (t - last) * hz > TicksPerSec

\* Mutant of connect: a success leaves last_error as it was.
ConnectKeepsError(self, ok, err) ==
  IF ok
  THEN [self EXCEPT !.sm = Some("SimConnect"), !.aq = Some("AircraftRequests"),
                    !.connected = TRUE]
  ELSE [self EXCEPT !.sm = None, !.aq = None,
                    !.connected = FALSE, !.last_error = Some(err)]

\* connect(): success stores the handles and clears last_error; a failure
\* stores the message and drops the handles.
connect(self, ok, err) ==
  IF ok
  THEN [self EXCEPT !.sm = Some("SimConnect"), !.aq = Some("AircraftRequests"),
                    !.connected = TRUE, !.last_error = None]
  ELSE [self EXCEPT !.sm = None, !.aq = None,
                    !.connected = FALSE, !.last_error = Some(err)]

\* Mutant of PollFailed: the partially built list is returned.
PollFailedReturnsPartial(self, partial, err) ==
  [self |-> [self EXCEPT !.connected = FALSE, !.last_error = Some(err),
                         !.sm = None, !.aq = None],
   ret |-> partial,
   exit |-> "failed"]

\* poll(), the except branch: a sim call raised after `partial` was built.
PollFailed(self, partial, err) ==
  [self |-> [self EXCEPT !.connected = FALSE, !.last_error = Some(err),
                         !.sm = None, !.aq = None],
   ret |-> self.cache,
   exit |-> "failed"]

\* poll(), the normal end: the cache is replaced by the fresh list.
PollFetched(self, fresh) ==
  [self |-> [self EXCEPT !.cache = fresh], ret |-> fresh, exit |-> "fetched"]

\* poll() past the early returns: last_poll is stamped, then the aircraft are
\* listed and read.  failAt = 0: no call raises; failAt = 1: the listing
\* raises; failAt = 1 + r: the r-th aq.get raises.
PollFetch(self, t, world, failAt, err) ==
  LET stamped == [self EXCEPT !.last_poll = t]
      ids == IF self.sm = None THEN <<>> ELSE _get_ai_object_ids(world)
  IN IF failAt = 0 THEN PollFetched(stamped, Built(ids, Len(ids)))
     ELSE IF failAt = 1 THEN PollFailed(stamped, <<>>, err)
     ELSE PollFailed(stamped, Built(ids, (failAt - 2) \div Len(ReadOrder)), err)

\* The values failAt may take for a listing `world`.
FailPoints(world) == 0..(1 + Len(_get_ai_object_ids(world)) * Len(ReadOrder))

\* ------------------------------------------------------------------------
\* Clicks: what handle_click can return
\* ------------------------------------------------------------------------
\* Rows (y) of the rectangles handle_click tests before the dropdown items,
\* all of which span the items' column: the log panel (with its Copy button),
\* the Connect button and the two dropdown headers.
CoveredRow(y) ==
  \/ y \in 120..(120 + 18 + 8 * 18 - 1)
  \/ y \in 84..(84 + 28 - 1)
  \/ y \in 16..(16 + 28 - 1)
  \/ y \in 50..(50 + 28 - 1)

\* An item rectangle (22 rows from `top`) has a row left where a click
\* reaches it.
ItemReachable(top) == \E y \in top..(top + 21) : ~CoveredRow(y)

\* Position of key k in sorted(keys), from 0.
SortedIndex(keys, k) == Cardinality({j \in keys : KeyRank(j) < KeyRank(k)})

\* handle_click returns "airport:<key>" for these keys ...
AirportClicks ==
  {k \in DOMAIN AIRPORT_CONFIGS :
     ItemReachable(16 + 28 + 4 + SortedIndex(DOMAIN AIRPORT_CONFIGS, k) * 24)}

\* ... and "runway:<key>" for these.
RunwayClicks ==
  {k \in DOMAIN RUNWAY_CONFIGS :
     ItemReachable(50 + 28 + 4 + SortedIndex(DOMAIN RUNWAY_CONFIGS, k) * 24)}

\* ------------------------------------------------------------------------
\* main()
\* ------------------------------------------------------------------------
\* source.connect() before the loop.
StartConnect ==
  /\ pc = "connect"
  /\ \E ok \in BOOLEAN, err \in Errors : SetSource(connect(Source, ok, err))
  /\ pc' = "events"
  /\ UNCHANGED <<cfg, cfgVars, frameVars, now, loopVars, raised>>

\* A click on the Connect button: source.connect().
ClickConnect ==
  /\ pc = "events"
  /\ \E ok \in BOOLEAN, err \in Errors : SetSource(connect(Source, ok, err))
  /\ UNCHANGED <<cfg, cfgVars, frameVars, now, pc, loopVars, raised>>

\* A click on an airport item: the airport becomes active, its first runway
\* in sorted order becomes the active runway and is applied.
SelectAirport(key) ==
  /\ pc = "events"
  /\ key \in AirportClicks
  /\ LET runways == RunwaysOf(AIRPORT_CONFIGS[key])
         first == FirstSorted(DOMAIN runways)
     IN /\ ACTIVE_AIRPORT_KEY' = Some(key)
        /\ RUNWAY_CONFIGS' = runways
        /\ ACTIVE_RUNWAY_KEY' = first
        /\ IF TruthyKey(first)
           THEN /\ SetFrame(_apply_runway(runways[Val(first)], Frame))
                /\ IF ApplyAborts(runways[Val(first)])
                   THEN Raise("_apply_runway")
                   ELSE UNCHANGED <<pc, raised>>
           ELSE UNCHANGED <<frameVars, pc, raised>>
  /\ UNCHANGED <<cfg, TARGET_CALLSIGN, POLL_HZ, AIRPORT_CONFIGS, sourceVars, now, loopVars>>

\* A click on a runway item: the runway becomes active and is applied.
SelectRunway(key) ==
  /\ pc = "events"
  /\ key \in RunwayClicks
  /\ ACTIVE_RUNWAY_KEY' = Some(key)
  /\ SetFrame(_apply_runway(RUNWAY_CONFIGS[key], Frame))
  /\ IF ApplyAborts(RUNWAY_CONFIGS[key])
     THEN Raise("_apply_runway")
     ELSE UNCHANGED <<pc, raised>>
  /\ UNCHANGED <<cfg, TARGET_CALLSIGN, POLL_HZ, AIRPORT_CONFIGS, RUNWAY_CONFIGS,
                 ACTIVE_AIRPORT_KEY, sourceVars, now, loopVars>>

\* pygame.QUIT: the loop ends after this iteration.
QuitEvent ==
  /\ pc = "events"
  /\ running
  /\ running' = FALSE
  /\ UNCHANGED <<cfg, cfgVars, frameVars, sourceVars, now, pc,
                 targets, target, last_track, poll_exit, drawn, raised>>

\* The event queue is drained.
EventsDone ==
  /\ pc = "events"
  /\ pc' = "poll"
  /\ UNCHANGED <<cfg, cfgVars, frameVars, sourceVars, now, loopVars, raised>>

\* targets = source.poll()
Poll ==
  /\ pc = "poll"
  /\ UNCHANGED <<cfg, cfgVars, frameVars, now, running, target, last_track, drawn>>
  /\ IF ~connected \/ aq = None
     THEN /\ targets' = cache
          /\ poll_exit' = "disconnected"
          /\ pc' = "pick"
          /\ UNCHANGED <<sourceVars, raised>>
     ELSE IF POLL_HZ = 0
     THEN \* 1.0 / POLL_HZ raises ZeroDivisionError
          /\ poll_exit' = "raised"
          /\ Raise("poll")
          /\ UNCHANGED <<sourceVars, targets>>
     ELSE IF Throttled(now, last_poll, POLL_HZ)
     THEN /\ targets' = cache
          /\ poll_exit' = "throttled"
          /\ pc' = "pick"
          /\ UNCHANGED <<sourceVars, raised>>
     ELSE \E world \in SimWorlds : \E failAt \in FailPoints(world) : \E err \in Errors :
            LET r == PollFetch(Source, now, world, failAt, err)
            IN /\ SetSource(r.self)
               /\ targets' = r.ret
               /\ poll_exit' = r.exit
               /\ pc' = "pick"
               /\ UNCHANGED raised

\* target = _pick_target(targets)
Pick ==
  /\ pc = "pick"
  /\ target' = _pick_target(targets, TARGET_CALLSIGN)
  /\ pc' = "track"
  /\ UNCHANGED <<cfg, cfgVars, frameVars, sourceVars, now, running, targets,
                 last_track, poll_exit, drawn, raised>>

\* last_track = _compute_track(target)
Track ==
  /\ pc = "track"
  /\ last_track' = _compute_track(target, Frame)
  /\ pc' = "render"
  /\ UNCHANGED <<cfg, cfgVars, frameVars, sourceVars, now, running, targets,
                 target, poll_exit, drawn, raised>>

\* display.render(last_track, source.connected, source.last_error)
Render ==
  /\ pc = "render"
  /\ drawn' = render(last_track, Frame)
  /\ IF drawn'.raises THEN Raise("render") ELSE pc' = "tick" /\ UNCHANGED raised
  /\ UNCHANGED <<cfg, cfgVars, frameVars, sourceVars, now, running, targets,
                 target, last_track, poll_exit>>

\* display.clock.tick(FPS): at most one clock tick passes per frame.  The
\* iteration ends here: targets, target, last_track and what was drawn are
\* dead (the next iteration assigns each before reading it) and the model
\* clears them.
Tick ==
  /\ pc = "tick"
  /\ \E dt \in 0..1 :
       /\ now + dt <= StartNow + MaxElapsed
       /\ now' = now + dt
  /\ pc' = IF running THEN "events" ELSE "exited"
  /\ targets' = <<>>
  /\ target' = None
  /\ last_track' = None
  /\ poll_exit' = "none"
  /\ drawn' = NotRendered
  /\ UNCHANGED <<cfg, cfgVars, frameVars, sourceVars, running, raised>>

Next ==
  \/ _load_config
  \/ StartConnect
  \/ ClickConnect
  \/ \E key \in DOMAIN AIRPORT_CONFIGS : SelectAirport(key)
  \/ \E key \in DOMAIN RUNWAY_CONFIGS : SelectRunway(key)
  \/ QuitEvent
  \/ EventsDone
  \/ Poll
  \/ Pick
  \/ Track
  \/ Render
  \/ Tick

Spec == Init /\ [][Next]_vars

\* ========================================================================
\* Properties
\* ========================================================================
\* The entry lacks one of the six fields.
Lacks(entry) == \E f \in Fields : f \notin DOMAIN entry

\* The entry has all six fields and float() accepts each.
Complete(entry) == \A f \in Fields : f \in DOMAIN entry /\ IsNum(entry[f])

\* The frame a complete entry describes.
FrameOf(entry) == [f \in Fields |-> NumVal(entry[f])]

\* The entry _load_config hands to _apply_runway, if any.
LoadedEntry ==
  IF ConfigFiles[cfg] = None THEN None
  ELSE LET c == Val(ConfigFiles[cfg])
           airport == IF TruthyKey(c.active_airport)
                      THEN DictGet(c.airports, Val(c.active_airport)) ELSE None
           runways == IF airport # None THEN RunwaysOf(Val(airport)) ELSE EmptyDict
       IN IF TruthyKey(c.active_runway) THEN DictGet(runways, Val(c.active_runway)) ELSE None

\* The entry a click on airport `key` hands to _apply_runway, if any.
AirportEntry(key) ==
  LET runways == RunwaysOf(AIRPORT_CONFIGS[key])
      first == FirstSorted(DOMAIN runways)
  IN IF TruthyKey(first) THEN Some(runways[Val(first)]) ELSE None

SelectionKept == Frame' = Frame /\ ACTIVE_RUNWAY_KEY' = ACTIVE_RUNWAY_KEY

\* C1: selecting a runway whose entry lacks one of the six numeric fields (at
\* config load, by airport selection or by runway selection) is rejected: the
\* six frame values and the active runway key are the same after the
\* selection as before it.
C1_MalformedSelectionRejected ==
  [][ /\ (_load_config /\ LoadedEntry # None /\ Lacks(Val(LoadedEntry))) => SelectionKept
      /\ \A key \in DOMAIN AIRPORT_CONFIGS :
           (SelectAirport(key) /\ AirportEntry(key) # None /\ Lacks(Val(AirportEntry(key))))
             => SelectionKept
      /\ \A key \in DOMAIN RUNWAY_CONFIGS :
           (SelectRunway(key) /\ Lacks(RUNWAY_CONFIGS[key])) => SelectionKept ]_vars

\* After a call _apply_runway(entry) the frame is entirely the entry's or
\* entirely the one before the call.
AtomicReplace(entry) == Frame' = Frame \/ (Complete(entry) /\ Frame' = FrameOf(entry))

\* C2: applying a runway configuration is an atomic replace: after any
\* _apply_runway call, completed or aborted, the six frame values are all
\* those of the selected entry or all those in effect before the call.
C2_ApplyIsAtomic ==
  [][ /\ (_load_config /\ LoadedEntry # None) => AtomicReplace(Val(LoadedEntry))
      /\ \A key \in DOMAIN AIRPORT_CONFIGS :
           (SelectAirport(key) /\ AirportEntry(key) # None)
             => AtomicReplace(Val(AirportEntry(key)))
      /\ \A key \in DOMAIN RUNWAY_CONFIGS :
           SelectRunway(key) => AtomicReplace(RUNWAY_CONFIGS[key]) ]_vars

\* C3: in every reachable state the active frame has glideslope_deg > 0,
\* max_range_nm > 0 and 0 <= heading_deg < 360.
C3_FrameInRange ==
  /\ GLIDESLOPE_DEG > 0
  /\ MAX_RANGE_NM > 0
  /\ 0 <= RUNWAY_HEADING_DEG
  /\ RUNWAY_HEADING_DEG < 360

\* The frame is the complete geometry of the runway the active keys name.
FrameIsNamedRunway ==
  /\ TruthyKey(ACTIVE_AIRPORT_KEY)
  /\ Val(ACTIVE_AIRPORT_KEY) \in DOMAIN AIRPORT_CONFIGS
  /\ TruthyKey(ACTIVE_RUNWAY_KEY)
  /\ LET runways == RunwaysOf(AIRPORT_CONFIGS[Val(ACTIVE_AIRPORT_KEY)])
     IN /\ Val(ACTIVE_RUNWAY_KEY) \in DOMAIN runways
        /\ Complete(runways[Val(ACTIVE_RUNWAY_KEY)])
        /\ Frame = FrameOf(runways[Val(ACTIVE_RUNWAY_KEY)])

\* C4: once the configuration names an active airport, the frame handed to
\* _compute_track and to the renderers is the complete geometry of the runway
\* named by the active airport and runway keys; a failed lookup never leaves
\* the default or the previous frame in effect under the new keys.
C4_FrameMatchesActiveKeys ==
  (pc \in {"track", "render"} /\ ACTIVE_AIRPORT_KEY # None) => FrameIsNamedRunway

\* C5: SimConnectSource.poll never raises to its caller, whatever the
\* connection state and the configured poll rate.
C5_PollNeverRaises == raised # "poll"

\* C6: when a sim call fails during a poll, poll sets connected to false,
\* records the error message, returns the cache exactly as it was before the
\* poll (the partially built list is discarded) and leaves the cache as it
\* was; the main loop goes on, in the same cycle, to select, project and
\* render from that cached snapshot.
C6_FailedPollServesCache ==
  /\ [][ (pc = "poll" /\ poll_exit' = "failed") =>
           /\ connected /\ ~connected'
           /\ last_error' \in {Some(e) : e \in Errors}
           /\ cache' = cache
           /\ targets' = cache
           /\ pc' = "pick"
           /\ raised' = "none" ]_vars
  /\ [](poll_exit = "failed" =>
           /\ pc \in {"pick", "track", "render", "tick"} \/ raised = "render"
           /\ targets = cache
           /\ pc # "pick" => target = _pick_target(cache, TARGET_CALLSIGN)
           /\ pc \notin {"pick", "track"} => last_track = _compute_track(target, Frame))

\* A poll failed with a non-empty cache and the cycle reached render with a
\* track projected from the cached snapshot.
C6_Witness ==
  /\ poll_exit = "failed"
  /\ pc = "render"
  /\ cache # <<>>
  /\ last_track # None
  /\ ~connected

\* C7: a poll called less than 1/POLL_HZ after the previous fetch attempt
\* makes no sim call, changes no field of the source and returns the cache;
\* the cache changes only when a fetch succeeds, and is then the fetched list,
\* so what a throttled poll returns is the last successfully fetched snapshot.
C7_ThrottledPollIsIdempotent ==
  [][ /\ (pc = "poll" /\ pc' # "poll" /\ POLL_HZ > 0
            /\ (now - last_poll) * POLL_HZ < TicksPerSec) =>
           /\ UNCHANGED sourceVars
           /\ targets' = cache
           /\ poll_exit' \in {"throttled", "disconnected"}
      /\ cache' # cache => (pc = "poll" /\ poll_exit' = "fetched" /\ cache' = targets') ]_vars

\* A connected source answered a poll inside the throttle window from a
\* non-empty cache.
C7_Witness ==
  /\ poll_exit = "throttled"
  /\ connected
  /\ cache # <<>>
  /\ targets = cache
  /\ now - last_poll < TicksPerSec

\* render() was called in this iteration (and returned or raised).
RenderCalled == pc = "tick" \/ raised = "render"

\* There is a track and its range_nm is at most MAX_RANGE_NM.
TrackInScope ==
  /\ last_track # None
  /\ Val(last_track).range_nm.n <= MAX_RANGE_NM * Val(last_track).range_nm.d

\* C11: in every render cycle both scopes draw their static furniture
\* (reference lines and the ten range ticks) whether or not there is a track;
\* the target marker is drawn on a scope if and only if a track exists and
\* its range_nm <= max_range_nm, and the two scopes agree on visibility.
C11_ScopesDrawn ==
  RenderCalled =>
    /\ drawn.elev_furniture
    /\ drawn.azim_furniture
    /\ drawn.elev_marker <=> TrackInScope
    /\ drawn.azim_marker <=> TrackInScope

\* The source's fields the claim C12 names.
ConnectionState == <<connected, last_error, last_poll, cache>>

\* C12: while the source is disconnected a poll changes none of connected,
\* last_error, last_poll and the cache and returns the cache; the source
\* becomes connected only by connect() (before the loop or on a click on
\* Connect); a connect() that succeeds clears last_error and leaves the
\* cache, which changes only by a successful fetch; and connected is true
\* only if the request handle aq is present.
C12_DisconnectedUntilConnect ==
  /\ [][ /\ (pc = "poll" /\ ~connected) =>
              /\ UNCHANGED ConnectionState
              /\ targets' = cache
              /\ pc' = "pick"
         /\ (~connected /\ connected') => pc \in {"connect", "events"}
         /\ (pc \in {"connect", "events"} /\ connected') =>
              /\ last_error' = None
              /\ cache' = cache
         /\ cache' # cache => (connected /\ poll_exit' = "fetched") ]_vars
  /\ [](connected => aq # None)

\* A poll was answered from a non-empty cache by a source that an earlier
\* failure had disconnected.
C12_Witness ==
  /\ pc = "pick"
  /\ poll_exit = "disconnected"
  /\ ~connected
  /\ aq = None
  /\ last_error # None
  /\ last_poll > 0
  /\ cache # <<>>
  /\ targets = cache

\* ------------------------------------------------------------------------
\* _compute_track on its own: main() at `last_track = _compute_track(target)`
\* with any target and any frame of the sets below
\* ------------------------------------------------------------------------
\* Targets lie on a grid of MaxOffset steps around the ESSA reference point.
MaxOffset == 1

Offsets == (0 - MaxOffset)..MaxOffset

TrackTargets ==
  { TargetOf(Aircraft(2, FALSE, lat, lon, alt, Some(<<"B", "9">>))) :
      lat \in {None} \cup {Some(490000 + 300 * i) : i \in Offsets},
      lon \in {None} \cup {Some(25000 + 400 * j) : j \in Offsets},
      alt \in {None, Some(50), Some(1500)} }

TrackFrames ==
  { DefaultFrame, FrameOf(RwyEast), FrameOf(RwyWest), FrameOf(RwyOutOfRange),
    _apply_runway(RwyPartial, FrameOf(RwyWest)) }

\* Everything but the position of main(), its target and the frame.
Idle ==
  /\ cfg = "missing"
  /\ POLL_HZ = 2
  /\ AIRPORT_CONFIGS = EmptyDict
  /\ RUNWAY_CONFIGS = EmptyDict
  /\ ACTIVE_AIRPORT_KEY = None
  /\ ACTIVE_RUNWAY_KEY = None
  /\ sm = None
  /\ aq = None
  /\ connected = FALSE
  /\ last_error = None
  /\ last_poll = 0
  /\ cache = <<>>
  /\ now = StartNow
  /\ running = TRUE
  /\ last_track = None
  /\ poll_exit = "disconnected"
  /\ drawn = NotRendered
  /\ raised = "none"

InitTrack ==
  /\ Idle
  /\ pc = "track"
  /\ TARGET_CALLSIGN = None
  /\ target \in {None} \cup {Some(t) : t \in TrackTargets}
  /\ targets = (IF target = None THEN <<>> ELSE <<Val(target)>>)
  /\ \E fr \in TrackFrames :
       /\ RUNWAY_LAT = fr.lat
       /\ RUNWAY_LON = fr.lon
       /\ RUNWAY_ELEV_FT = fr.elev_ft
       /\ RUNWAY_HEADING_DEG = fr.heading_deg
       /\ GLIDESLOPE_DEG = fr.glideslope_deg
       /\ MAX_RANGE_NM = fr.max_range_nm

SpecTrack == InitTrack /\ [][Track]_vars

\* The target lacks lat, lon or alt.
MissingPosition(t) == t.lat = None \/ t.lon = None \/ t.alt = None

\* C8: _compute_track returns no track when the target is absent or its lat,
\* lon or alt is missing, whichever of them are missing; when all three are
\* present it returns a track whose height_ft is alt minus the runway
\* elevation.
C8_NoTrackWithoutPosition ==
  pc = "render" =>
    IF target = None \/ MissingPosition(Val(target))
    THEN last_track = None
    ELSE /\ last_track # None
         /\ Val(last_track).height_ft = Val(Val(target).alt) - RUNWAY_ELEV_FT

\* _compute_track ran on a target that has lat and alt but no lon.
C8_Witness ==
  /\ pc = "render"
  /\ target # None
  /\ Val(target).lon = None
  /\ Val(target).lat # None
  /\ Val(target).alt # None
  /\ last_track = None

\* Along-track distance of a target with a position, in millimetres.
AlongOf(t, fr) ==
  LET xy == _geodetic_to_local_m(Val(t.lat), Val(t.lon), fr.lat, fr.lon)
  IN _rotate(xy[1], xy[2], fr.heading_deg)[1]

\* C9: every track has range_nm >= 0: it is exactly 0 when the along-track
\* distance is 0 or negative, and along_m / 1852 when it is positive.
C9_RangeClamped ==
  (pc = "render" /\ last_track # None) =>
    LET along == AlongOf(Val(target), Frame)
        range_nm == Val(last_track).range_nm
    IN /\ range_nm.d > 0
       /\ range_nm.n >= 0
       /\ along <= 0 => range_nm.n = 0
       /\ along > 0 => range_nm = [n |-> along, d |-> 1852 * 1000]

\* A track was computed for a target behind the runway reference point.
C9_Witness ==
  /\ pc = "render"
  /\ last_track # None
  /\ AlongOf(Val(target), Frame) < 0
  /\ Val(last_track).range_nm.n = 0

\* ------------------------------------------------------------------------
\* _pick_target on its own: main() at `target = _pick_target(targets)` with
\* any list and any locked callsign of the sets below
\* ------------------------------------------------------------------------
\* Longest list of targets, and the number of targets sharing a callsign.
MaxPick == 2

MaxTwins == 2

PickCallsigns ==
  { None, Some(<<>>), Some(<<"a", "1">>), Some(<<" ", "A", "1", " ">>), Some(<<"B", "9">>) }

PickPool ==
  { TargetOf(Aircraft(id, FALSE, Some(490300), Some(25000), Some(1500), cs)) :
      id \in 1..MaxTwins, cs \in PickCallsigns }

LockedCallsigns ==
  { None, Some(<<>>), Some(<<"A", "1">>), Some(<<"a", "1">>), Some(<<" ", "A", "1">>),
    Some(<<"b", "9">>), Some(<<"b", "1">>) }

InitPick ==
  /\ Idle
  /\ pc = "pick"
  /\ TARGET_CALLSIGN \in LockedCallsigns
  /\ targets \in SeqsUpTo(PickPool, MaxPick)
  /\ target = None
  /\ RUNWAY_LAT = DefaultFrame.lat
  /\ RUNWAY_LON = DefaultFrame.lon
  /\ RUNWAY_ELEV_FT = DefaultFrame.elev_ft
  /\ RUNWAY_HEADING_DEG = DefaultFrame.heading_deg
  /\ GLIDESLOPE_DEG = DefaultFrame.glideslope_deg
  /\ MAX_RANGE_NM = DefaultFrame.max_range_nm

SpecPick == InitPick /\ [][Pick]_vars

\* Two characters are the same letter, digit or blank, ignoring case.
SameIgnoringCase(x, y) == x = y \/ {x, y} \in {{"a", "A"}, {"b", "B"}}

\* The target's trimmed callsign equals the locked callsign ignoring case.
IsLockedTarget(t, locked) ==
  LET cs == Strip(IF t.callsign = None THEN <<>> ELSE Val(t.callsign))
  IN /\ Len(cs) = Len(locked)
     /\ \A i \in 1..Len(cs) : SameIgnoringCase(cs[i], locked[i])

Locked == TARGET_CALLSIGN # None /\ TARGET_CALLSIGN # Some(<<>>)

\* C10: _pick_target returns None for an empty list; with a locked callsign
\* and a target whose trimmed callsign equals it ignoring case, it returns
\* such a target wherever it sits; with no locked callsign or no such target
\* it returns the first element.  The result is an element of the list, and
\* the list is left as it was.
C10_PickTarget ==
  /\ [][pc = "pick" => targets' = targets]_vars
  /\ [](pc = "track" =>
          IF targets = <<>> THEN target = None
          ELSE /\ target # None
               /\ \E i \in 1..Len(targets) : Val(target) = targets[i]
               /\ IF Locked /\ \E i \in 1..Len(targets) :
                                  IsLockedTarget(targets[i], Val(TARGET_CALLSIGN))
                  THEN IsLockedTarget(Val(target), Val(TARGET_CALLSIGN))
                  ELSE Val(target) = targets[1])

\* The locked target was picked from the second place of the list, its
\* callsign differing from the locked one in case and padding.
C10_Witness ==
  /\ pc = "track"
  /\ Locked
  /\ Len(targets) = 2
  /\ target = Some(targets[2])
  /\ targets[2] # targets[1]
  /\ Val(TARGET_CALLSIGN) # Val(targets[2].callsign)
  /\ IsLockedTarget(targets[2], Val(TARGET_CALLSIGN))

====
